---- MODULE Spec2Model ----
(***************************************************************************)
(* Verification model of the nova-grounding-demo web-search CLI:           *)
(*   - the run-all orchestrator (runAllModels) and its heuristic score,    *)
(*   - the shared citation de-duplication helper (DeduplicateCitations),   *)
(*   - the parallel link validator (validateCitations).                    *)
(* Strings are sequences of one-character strings wherever the code looks  *)
(* inside them (strings.Fields); elsewhere they are opaque values.         *)
(***************************************************************************)
EXTENDS Integers, Sequences, FiniteSets, TLC

(***************************************************************************)
(* Bounds                                                                  *)
(***************************************************************************)
\* how many of the providers the init() functions register take part
NumProviders == 3
\* longest citation list a modelled Result carries in the scoring checks
MaxCitations == 3
\* longest text, in words, handed to calculateScore
MaxWords == 600
\* number of DeduplicateCitations calls in one parse
MaxCalls == 4
\* longest citation list handed to validateCitations
MaxProbes == 3
\* longest CitationCheck list handed to linkHealthScore
MaxChecks == 9
\* longest result list handed to Judge
MaxResults == 2
\* longest evaluation list the scoring call returns
MaxEvals == 2

(***************************************************************************)
(* Generic helpers                                                         *)
(***************************************************************************)
Range(s) == {s[i] : i \in 1..Len(s)}

Min(a, b) == IF a < b THEN a ELSE b

\* all permutations of 1..n, as functions
Perms(n) == {f \in [1..n -> 1..n] : \A i, j \in 1..n : f[i] = f[j] => i = j}

(***************************************************************************)
(* Data model (provider.go)                                                *)
(***************************************************************************)
\* the nil error value of Result.Error
Nil == "<nil>"

\* the names the provider files register, in the order All() sorts them
ProviderNames == <<"claude", "gemini", "grok", "nova">>

Providers == {ProviderNames[i] : i \in 1..Min(NumProviders, Len(ProviderNames))}

Cite(u, t) == [URL |-> u, Title |-> t]

MkResult(text, cites, err) == [Text |-> text, Citations |-> cites, Error |-> err]

\* unicode.IsSpace on the characters the model uses
IsSpace(c) == c \in {" ", "\t", "\n"}

\* len(strings.Fields(text)): the number of maximal runs of non-space
\* characters, counted by the positions where such a run starts
FieldsCount(text) ==
    Cardinality({i \in 1..Len(text) :
        /\ ~IsSpace(text[i])
        /\ (i = 1 \/ IsSpace(text[i - 1]))})

\* calculateScore with the citation term dropped
calculateScoreNoCitations(r) ==
    IF r.Error # Nil THEN 0
    ELSE Min(FieldsCount(r.Text) \div 10, 50)

\* calculateScore without the cap on the word term
calculateScoreNoCap(r) ==
    IF r.Error # Nil THEN 0
    ELSE Len(r.Citations) * 10 + FieldsCount(r.Text) \div 10

calculateScore(r) ==
    IF r.Error # Nil THEN 0
    ELSE LET wordCount == FieldsCount(r.Text)
             citationScore == Len(r.Citations) * 10
             wordScore == Min(wordCount \div 10, 50)
         IN  citationScore + wordScore

MkModelResult(p, r) == [Provider |-> p, Result |-> r, Score |-> calculateScore(r)]

(***************************************************************************)
(* float64 arithmetic (judge.go computes its scores in float64)            *)
(*                                                                         *)
(* A float64 is held exactly as four limbs <<i, f1, f2, f3>> standing for  *)
(* i + f1/2^20 + f2/2^40 + f3/2^60, with f1, f2, f3 in 0..2^20-1 and i an  *)
(* integer (negative for a negative value).  Every value the judge         *)
(* computes is a multiple of 2^-55 below 2^11 in size (the weights are,    *)
(* and sums, integer multiples and roundings keep that), so the limbs hold *)
(* it exactly.  An                                                         *)
(* operation computes the exact result and rounds it once to 53            *)
(* significant bits, ties to even, as IEEE 754 does.                       *)
(***************************************************************************)
Limb == 1048576

\* number of bits of a natural number below 2^31
BitLen(n) == IF n = 0 THEN 0 ELSE (CHOOSE b \in 1..31 : 2^(b - 1) <= n /\ (b = 31 \/ n < 2^b))

\* carries pushed upwards so that the three fraction limbs are below 2^20
FxNorm(a) ==
    LET c3 == a[4] \div Limb
        l2 == a[3] + c3
        c2 == l2 \div Limb
        l1 == a[2] + c2
        c1 == l1 \div Limb
    IN  <<a[1] + c1, l1 % Limb, l2 % Limb, a[4] % Limb>>

FxAdd(a, b) == FxNorm(<<a[1] + b[1], a[2] + b[2], a[3] + b[3], a[4] + b[4]>>)

\* exact product with an integer below 2^10 in size
FxMulSmall(a, q) == FxNorm(<<a[1] * q, a[2] * q, a[3] * q, a[4] * q>>)

\* exact quotient of the natural numbers h / t (t below 2^10), cut off at
\* 2^-60, and whether anything was cut off
FxDivSmall(h, t) ==
    LET q0 == h \div t
        r0 == h % t
        q1 == (r0 * Limb) \div t
        r1 == (r0 * Limb) % t
        q2 == (r1 * Limb) \div t
        r2 == (r1 * Limb) % t
        q3 == (r2 * Limb) \div t
        r3 == (r2 * Limb) % t
    IN  [val |-> <<q0, q1, q2, q3>>, sticky |-> (r3 # 0)]

\* number of significant bits of a limb value, counted down to 2^-60
FxBitLen(a) ==
    IF a[1] > 0 THEN 60 + BitLen(a[1])
    ELSE IF a[2] > 0 THEN 40 + BitLen(a[2])
    ELSE IF a[3] > 0 THEN 20 + BitLen(a[3])
    ELSE BitLen(a[4])

\* the exact negation
FxNeg(a) == FxNorm(<<0 - a[1], 0 - a[2], 0 - a[3], 0 - a[4]>>)

\* round a non-negative value to nearest, ties to even, at 53 significant
\* bits; sticky says that the exact value has further bits below 2^-60
FxRoundAbs(a, sticky) ==
    LET k == FxBitLen(a) - 53 IN
    IF k <= 0 THEN a
    ELSE LET unit == 2^k
             dropped == a[4] % unit
             half == unit \div 2
             keptOdd == IF k < 20 THEN (a[4] \div unit) % 2 = 1 ELSE a[3] % 2 = 1
             up == dropped > half \/ (dropped = half /\ (sticky \/ keptOdd))
         IN  FxNorm(<<a[1], a[2], a[3], a[4] - dropped + (IF up THEN unit ELSE 0)>>)

\* round to nearest, ties to even: the rounding of the magnitude, with the
\* sign put back
FxRound(a, sticky) ==
    IF a[1] < 0 THEN FxNeg(FxRoundAbs(FxNeg(a), sticky)) ELSE FxRoundAbs(a, sticky)

\* float64(n) of a small integer
F64(n) == <<n, 0, 0, 0>>

\* x + y in float64
F64Add(x, y) == FxRound(FxAdd(x, y), FALSE)

\* float64(q) * c in float64, for an integer q
F64MulInt(q, c) == FxRound(FxMulSmall(c, q), FALSE)

\* float64(q)*c + z with one rounding (a fused multiply-add)
F64FMA(q, c, z) == FxRound(FxAdd(FxMulSmall(c, q), z), FALSE)

\* float64(h) / float64(t) in float64
F64Div(h, t) == FxRound(FxDivSmall(h, t).val, FxDivSmall(h, t).sticky)

\* int(x): truncation of a non-negative float64
F64Trunc(x) == x[1]

\* x < y and x > y on float64
F64Less(x, y) ==
    \E i \in 1..4 : x[i] < y[i] /\ \A j \in 1..(i - 1) : x[j] = y[j]

\* the float64 constants 0.25, 0.15 and 0.20 of the Overall formula
W025 == <<0, 262144, 0, 0>>
W015 == <<0, 157286, 419430, 419424>>
W020 == <<0, 209715, 209715, 209728>>

(***************************************************************************)
(* linkHealthScore (judge.go)                                              *)
(***************************************************************************)
\* CitationCheck, without its Latency
MkCheck(u, code, ok, err) == [URL |-> u, StatusCode |-> code, Healthy |-> ok, Error |-> err]

\* the number of checks with Healthy set
HealthyCount(cs) == Cardinality({i \in 1..Len(cs) : cs[i].Healthy})

\* linkHealthScore with the `+ 1` forgotten
linkHealthScoreNoPlusOne(cs) ==
    IF Len(cs) = 0 THEN 5
    ELSE LET pct == F64Div(HealthyCount(cs), Len(cs))
             score == F64Trunc(F64MulInt(9, pct))
         IN  IF score > 10 THEN 10 ELSE score

\* linkHealthScore scaling the share of healthy links by 10 instead of 9
linkHealthScoreTimesTen(cs) ==
    IF Len(cs) = 0 THEN 5
    ELSE LET pct == F64Div(HealthyCount(cs), Len(cs))
             score == F64Trunc(F64MulInt(10, pct)) + 1
         IN  IF score > 10 THEN 10 ELSE score

\* linkHealthScore: pct := float64(healthy) / float64(len(checks));
\* score := int(pct*9) + 1, capped at 10; 5 for no checks
linkHealthScore(cs) ==
    IF Len(cs) = 0 THEN 5
    ELSE LET pct == F64Div(HealthyCount(cs), Len(cs))
             score == F64Trunc(F64MulInt(9, pct)) + 1
         IN  IF score > 10 THEN 10 ELSE score

(***************************************************************************)
(* Judge: names, evaluation matching and the Overall score (judge.go)      *)
(***************************************************************************)
\* p.Name() as characters; Name() returns the key the provider registers under
Name(p) ==
    CASE p = "claude" -> <<"c", "l", "a", "u", "d", "e">>
      [] p = "gemini" -> <<"g", "e", "m", "i", "n", "i">>
      [] p = "grok"   -> <<"g", "r", "o", "k">>
      [] p = "nova"   -> <<"n", "o", "v", "a">>

\* p.DisplayName() as characters
DisplayName(p) ==
    CASE p = "claude" -> <<"C", "l", "a", "u", "d", "e", " ", "4", ".", "5", " ",
                           "S", "o", "n", "n", "e", "t">>
      [] p = "gemini" -> <<"G", "e", "m", "i", "n", "i", " ", "3", " ", "P", "r", "o">>
      [] p = "grok"   -> <<"G", "r", "o", "k", " ", "4", " ", "(", "x", "A", "I", ")">>
      [] p = "nova"   -> <<"N", "o", "v", "a", " ", "P", "r", "e", "m", "i", "e", "r",
                           " ", "(", "A", "W", "S", ")">>

UpperCase == <<"A", "B", "C", "D", "E", "F", "G", "H", "I", "J", "K", "L", "M",
               "N", "O", "P", "Q", "R", "S", "T", "U", "V", "W", "X", "Y", "Z">>
LowerCase == <<"a", "b", "c", "d", "e", "f", "g", "h", "i", "j", "k", "l", "m",
               "n", "o", "p", "q", "r", "s", "t", "u", "v", "w", "x", "y", "z">>

\* strings.ToLower on the characters the model uses
ToLower(s) ==
    [i \in 1..Len(s) |->
        IF \E k \in 1..Len(UpperCase) : UpperCase[k] = s[i]
          THEN LowerCase[CHOOSE k \in 1..Len(UpperCase) : UpperCase[k] = s[i]]
          ELSE s[i]]

\* strings.Contains(s, substr); the empty substr is contained in every s
Contains(s, substr) ==
    \E k \in 0..(Len(s) - Len(substr)) :
        \A i \in 1..Len(substr) : s[k + i] = substr[i]

\* a judgeEvaluation as json.Unmarshal fills it
MkEval(model, q, rec, sig, imp, why) ==
    [Model |-> model, Quality |-> q, Recency |-> rec, Significance |-> sig,
     Impact |-> imp, Reasoning |-> why]

\* evalMap after `for _, eval := range toolInput.Evaluations
\* { evalMap[eval.Model] = eval }`: a later evaluation with the same Model
\* overwrites an earlier one
BuildEvalMap(evals) ==
    [name \in {evals[k].Model : k \in 1..Len(evals)} |->
        evals[CHOOSE k \in 1..Len(evals) :
                 /\ evals[k].Model = name
                 /\ \A m \in (k + 1)..Len(evals) : evals[m].Model # name]]

\* the condition of the fuzzy-matching loop for map key name and provider p
FuzzyMatch(name, p) ==
    \/ Contains(ToLower(name), ToLower(Name(p)))
    \/ Contains(ToLower(DisplayName(p)), ToLower(name))

\* matching that tries the substring rule before the exact display name
MatchesFuzzyFirst(em, p) ==
    IF \E name \in DOMAIN em : FuzzyMatch(name, p)
      THEN {em[name] : name \in {n \in DOMAIN em : FuzzyMatch(n, p)}}
      ELSE IF DisplayName(p) \in DOMAIN em THEN {em[DisplayName(p)]} ELSE {}

\* the evaluations `eval, ok := evalMap[p.DisplayName()]` followed by the
\* fuzzy loop can end with for provider p: the entry under the display name
\* if there is one; otherwise the entry under any key the loop's condition
\* accepts (the loop walks the map in unspecified order and stops at the
\* first such key); the empty set stands for ok = false
Matches(em, p) ==
    IF DisplayName(p) \in DOMAIN em
      THEN {em[DisplayName(p)]}
      ELSE {em[name] : name \in {n \in DOMAIN em : FuzzyMatch(n, p)}}

\* the Overall expression with the link-health term weighted like the others
OverallEvenWeights(ev, lh, fu) ==
    F64Add(F64Add(F64Add(F64Add(F64MulInt(ev.Quality, W020),
                                F64MulInt(lh, W020)),
                         F64MulInt(ev.Recency, W020)),
                  F64MulInt(ev.Significance, W020)),
           F64MulInt(ev.Impact, W020))

\* overall := float64(eval.Quality)*0.25 + float64(lhScore)*0.15 +
\*            float64(eval.Recency)*0.20 + float64(eval.Significance)*0.20 +
\*            float64(eval.Impact)*0.20
\* evaluated left to right in float64; with fu the build fuses each
\* multiplication into the addition that consumes it (one rounding)
Overall(ev, lh, fu) ==
    IF fu
      THEN F64FMA(ev.Impact, W020,
             F64FMA(ev.Significance, W020,
               F64FMA(ev.Recency, W020,
                 F64FMA(lh, W015, F64MulInt(ev.Quality, W025)))))
      ELSE F64Add(F64Add(F64Add(F64Add(F64MulInt(ev.Quality, W025),
                                       F64MulInt(lh, W015)),
                                F64MulInt(ev.Recency, W020)),
                         F64MulInt(ev.Significance, W020)),
                  F64MulInt(ev.Impact, W020))

\* &JudgeScore{...} for a matched evaluation
MatchedScore(ev, lh, fu) ==
    [Quality |-> ev.Quality, LinkHealth |-> lh, Recency |-> ev.Recency,
     Significance |-> ev.Significance, Impact |-> ev.Impact,
     Overall |-> Overall(ev, lh, fu), Reasoning |-> ev.Reasoning]

NoEvaluation == "Judge did not return evaluation for this model"

\* a fallback score that leaves Overall at its zero value
FallbackScoreNoOverall(lh) ==
    [Quality |-> 0, LinkHealth |-> lh, Recency |-> 0, Significance |-> 0,
     Impact |-> 0, Overall |-> F64(0), Reasoning |-> NoEvaluation]

\* &JudgeScore{LinkHealth: lhScore, Overall: float64(lhScore), Reasoning: ...}
FallbackScore(lh) ==
    [Quality |-> 0, LinkHealth |-> lh, Recency |-> 0, Significance |-> 0,
     Impact |-> 0, Overall |-> F64(lh), Reasoning |-> NoEvaluation]

\* a ModelResult as Judge sees it; JudgeScore is a pointer: <<>> is nil,
\* <<s>> points to the score s
MkJudged(p, res, js) == [Provider |-> p, Result |-> res, JudgeScore |-> js]

\* the key the final sort compares: 0.0 for a nil JudgeScore
SortKey(mr) == IF mr.JudgeScore = <<>> THEN F64(0) ELSE mr.JudgeScore[1].Overall

(***************************************************************************)
(* State                                                                   *)
(***************************************************************************)
VARIABLES
    \* --- environment of runAllModels -----------------------------------
    registered,    \* the provider registry (keys of `providers`)
    authErr,       \* registered providers whose CheckAuth returns an error
    \* --- runAllModels --------------------------------------------------
    pcMain,        \* position of the main goroutine in runAllModels
    idx,           \* index of the for loop the main goroutine is in
    available,     \* []Provider that passed CheckAuth
    skipped,       \* []string of the providers that failed CheckAuth
    wg,            \* sync.WaitGroup counter
    results,       \* buffer of the results channel
    closed,        \* the results channel has been closed
    pcWorker,      \* per provider: position of its worker goroutine
    queryResult,   \* per provider: r, the Result its Query returned
    queries,       \* per provider: number of Query calls made on it
    pcCloser,      \* position of the goroutine that waits and closes
    modelResults,  \* []ModelResult collected (and then sorted in place)
    arrival,       \* history: the ModelResults in channel-receive order
    output,        \* the ranked results as printed
    exitCode,      \* process exit status (-1 while running)
    panicked,      \* a goroutine panicked (send on a closed channel)
    \* --- calculateScore on its own --------------------------------------
    scoreIn,       \* the Result handed to calculateScore
    scoreOut,      \* what it returned (-1 before the call)
    \* --- DeduplicateCitations ------------------------------------------
    citations,     \* *[]Citation being built
    seen,          \* map[string]bool, as a function on the URLs set in it
    lastCand,      \* the candidate of the last call
    calls,         \* number of calls made
    \* --- validateCitations ---------------------------------------------
    vIn,           \* the citation list passed in
    pcVal,         \* position of validateCitations
    vIdx,          \* index of its launch loop
    checks,        \* []CitationCheck being filled
    vWg,           \* its WaitGroup counter
    pcProbe,       \* per index: position of the probe goroutine
    ctxDone,       \* the caller's context (Judge's ctx) has been canceled
    heads,         \* per index: number of client.Head calls made
    headResult,    \* per index: what client.Head came back with (-1 before)
    check,         \* per index: the probe goroutine's local CitationCheck
    written,       \* per index: number of writes made to checks[idx]
    vOut,          \* the returned slice
    \* --- linkHealthScore on its own -------------------------------------
    healthIn,      \* the CitationCheck list handed to linkHealthScore
    healthOut,     \* what it returned (-1 before the call)
    \* --- Judge ----------------------------------------------------------
    jIn,           \* history: the results slice as the caller passed it
    jResults,      \* results: the slice Judge works on (and scores in place)
    pcJudge,       \* position of the goroutine running Judge
    jIdx,          \* index of the for loop Judge is in
    allChecks,     \* map[string][]CitationCheck, keyed by Provider.Name()
    jWg,           \* Judge's WaitGroup counter
    mu,            \* Judge's mutex: 0 when free, else the index of its holder
    pcValidator,   \* per index: position of the validation goroutine
    vChecks,       \* per index: checks, what its validateCitations returned
    validations,   \* number of validateCitations calls made
    llmCalls,      \* number of client.Messages.New calls made
    toolInput,     \* toolInput.Evaluations after parsing
    evalMap,       \* map[string]judgeEvaluation, keyed by eval.Model
    usedKey,       \* history: per provider, the evalMap key its evaluation came from
    jErr,          \* the error Judge returned
    jOut,          \* the slice Judge returned
    fused          \* the build fuses x*y + z into one rounding

orchVars == <<registered, authErr, pcMain, idx, available, skipped, wg, results,
              closed, pcWorker, queryResult, queries, pcCloser, modelResults, arrival,
              output, exitCode, panicked>>
scoreVars == <<scoreIn, scoreOut>>
dedupVars == <<citations, seen, lastCand, calls>>
valVars == <<vIn, pcVal, vIdx, checks, vWg, pcProbe, ctxDone, heads, headResult, check,
             written, vOut>>
healthVars == <<healthIn, healthOut>>
judgeVars == <<jIn, jResults, pcJudge, jIdx, allChecks, jWg, mu, pcValidator, vChecks,
               validations, llmCalls, toolInput, evalMap, usedKey, jErr, jOut, fused>>
vars == <<orchVars, scoreVars, dedupVars, valVars, healthVars, judgeVars>>

\* the Result a goroutine holds before its Query has returned
NoResult == MkResult(<<>>, <<>>, Nil)

OrchIdle ==
    /\ registered = {} /\ authErr = {}
    /\ pcMain = "off" /\ idx = 1
    /\ available = <<>> /\ skipped = <<>>
    /\ wg = 0 /\ results = <<>> /\ closed = FALSE
    /\ pcWorker = [p \in Providers |-> "idle"]
    /\ queryResult = [p \in Providers |-> NoResult]
    /\ queries = [p \in Providers |-> 0]
    /\ pcCloser = "idle"
    /\ modelResults = <<>> /\ arrival = <<>> /\ output = <<>>
    /\ exitCode = -1 /\ panicked = FALSE

ScoreIdle == scoreIn = NoResult /\ scoreOut = -1

DedupIdle == citations = <<>> /\ seen = <<>> /\ lastCand = Cite("", "") /\ calls = 0

HealthIdle == healthIn = <<>> /\ healthOut = -1

JudgeIdle ==
    /\ jIn = <<>> /\ jResults = <<>> /\ pcJudge = "off" /\ jIdx = 1
    /\ allChecks = <<>> /\ jWg = 0 /\ mu = 0 /\ pcValidator = <<>> /\ vChecks = <<>>
    /\ validations = 0 /\ llmCalls = 0 /\ toolInput = <<>> /\ evalMap = <<>>
    /\ usedKey = <<>>
    /\ jErr = Nil /\ jOut = <<>> /\ fused = FALSE

ValIdle ==
    /\ vIn = <<>> /\ pcVal = "off" /\ vIdx = 1 /\ checks = <<>> /\ vWg = 0
    /\ pcProbe = <<>> /\ ctxDone = FALSE /\ heads = <<>> /\ headResult = <<>>
    /\ check = <<>> /\ written = <<>>
    /\ vOut = <<>>

(***************************************************************************)
(* runAllModels (main.go)                                                  *)
(***************************************************************************)
\* a short text of n words, one space between them
Words(n) ==
    IF n = 0 THEN <<>>
    ELSE [i \in 1..(2 * n - 1) |-> IF i % 2 = 1 THEN "w" ELSE " "]

\* what a provider's Query can return in the orchestrator runs: a failure,
\* an empty answer, an ungrounded answer and a grounded one with a citation
QueryResults ==
    { MkResult(<<>>, <<>>, "timeout"),
      MkResult(<<>>, <<>>, Nil),
      MkResult(Words(12), <<>>, Nil),
      MkResult(Words(6), <<Cite("https://a.example/1", "a")>>, Nil) }

\* All(): the registered names, sorted
All == SelectSeq(ProviderNames, LAMBDA n : n \in registered)

InitOrch ==
    /\ registered \in SUBSET Providers
    /\ authErr \in SUBSET registered
    /\ pcMain = "preflight" /\ idx = 1
    /\ available = <<>> /\ skipped = <<>>
    /\ wg = 0 /\ results = <<>> /\ closed = FALSE
    /\ pcWorker = [p \in Providers |-> "idle"]
    /\ queryResult = [p \in Providers |-> NoResult]
    /\ queries = [p \in Providers |-> 0]
    /\ pcCloser = "idle"
    /\ modelResults = <<>> /\ arrival = <<>> /\ output = <<>>
    /\ exitCode = -1 /\ panicked = FALSE

otherThanOrch == <<scoreVars, dedupVars, valVars, healthVars, judgeVars>>

\* CheckAuth with the check ignored: every provider counts as available
CheckAuthStepNoCheck ==
    /\ pcMain = "preflight" /\ idx <= Len(All)
    /\ available' = Append(available, All[idx])
    /\ idx' = idx + 1
    /\ UNCHANGED <<registered, authErr, pcMain, skipped, wg, results, closed,
                   pcWorker, queryResult, queries, pcCloser, modelResults,
                   arrival, output, exitCode, panicked>>
    /\ UNCHANGED otherThanOrch

\* one iteration of the pre-flight loop over All()
CheckAuthStep ==
    /\ pcMain = "preflight" /\ idx <= Len(All)
    /\ IF All[idx] \in authErr
         THEN /\ skipped' = Append(skipped, All[idx])
              /\ UNCHANGED available
         ELSE /\ available' = Append(available, All[idx])
              /\ UNCHANGED skipped
    /\ idx' = idx + 1
    /\ UNCHANGED <<registered, authErr, pcMain, wg, results, closed, pcWorker,
                   queryResult, queries, pcCloser, modelResults, arrival,
                   output, exitCode, panicked>>
    /\ UNCHANGED otherThanOrch

\* the empty check skipped: the run goes on with no provider
CheckAvailableNoExit ==
    /\ pcMain = "preflight" /\ idx > Len(All)
    /\ pcMain' = "launch" /\ idx' = 1
    /\ UNCHANGED <<registered, authErr, available, skipped, wg, results, closed,
                   pcWorker, queryResult, queries, pcCloser, modelResults,
                   arrival, output, exitCode, panicked>>
    /\ UNCHANGED otherThanOrch

\* end of the pre-flight loop: `if len(available) == 0 { ...; os.Exit(1) }`,
\* else make the channel and go on to launch the workers
CheckAvailable ==
    /\ pcMain = "preflight" /\ idx > Len(All)
    /\ IF Len(available) = 0
         THEN pcMain' = "exited" /\ exitCode' = 1
         ELSE pcMain' = "launch" /\ UNCHANGED exitCode
    /\ idx' = 1
    /\ UNCHANGED <<registered, authErr, available, skipped, wg, results, closed,
                   pcWorker, queryResult, queries, pcCloser, modelResults,
                   arrival, output, panicked>>
    /\ UNCHANGED otherThanOrch

\* one iteration of `for _, p := range available`: wg.Add(1); go func(p)
Launch ==
    /\ pcMain = "launch" /\ idx <= Len(available)
    /\ wg' = wg + 1
    /\ pcWorker' = [pcWorker EXCEPT ![available[idx]] = "query"]
    /\ idx' = idx + 1
    /\ UNCHANGED <<registered, authErr, pcMain, available, skipped, results,
                   closed, queryResult, queries, pcCloser, modelResults,
                   arrival, output, exitCode, panicked>>
    /\ UNCHANGED otherThanOrch

\* `go func() { wg.Wait(); close(results) }()`, then on to the collect loop
SpawnCloser ==
    /\ pcMain = "launch" /\ idx > Len(available)
    /\ pcCloser' = "wait"
    /\ pcMain' = "collect"
    /\ UNCHANGED <<registered, authErr, idx, available, skipped, wg, results,
                   closed, pcWorker, queryResult, queries, modelResults,
                   arrival, output, exitCode, panicked>>
    /\ UNCHANGED otherThanOrch

\* a worker that calls Query a second time when the first call failed
WorkerQueryRetry(p) ==
    /\ pcWorker[p] = "query"
    /\ \E res \in QueryResults :
          /\ queryResult' = [queryResult EXCEPT ![p] = res]
          /\ pcWorker' = [pcWorker EXCEPT ![p] =
                             IF res.Error # Nil /\ queries[p] = 0 THEN "query" ELSE "send"]
    /\ queries' = [queries EXCEPT ![p] = @ + 1]
    /\ UNCHANGED <<registered, authErr, pcMain, idx, available, skipped, wg,
                   results, closed, pcCloser, modelResults, arrival, output,
                   exitCode, panicked>>
    /\ UNCHANGED otherThanOrch

\* worker: r := provider.Query(ctx, query, verbose)
WorkerQuery(p) ==
    /\ pcWorker[p] = "query"
    /\ \E res \in QueryResults : queryResult' = [queryResult EXCEPT ![p] = res]
    /\ queries' = [queries EXCEPT ![p] = @ + 1]
    /\ pcWorker' = [pcWorker EXCEPT ![p] = "send"]
    /\ UNCHANGED <<registered, authErr, pcMain, idx, available, skipped, wg,
                   results, closed, pcCloser, modelResults, arrival, output,
                   exitCode, panicked>>
    /\ UNCHANGED otherThanOrch

\* worker that gives up on a failed Query: no send, only the deferred Done
WorkerSendDropErrors(p) ==
    /\ pcWorker[p] = "send"
    /\ ~closed
    /\ Len(results) < Len(available)
    /\ results' = IF queryResult[p].Error # Nil THEN results
                  ELSE Append(results, MkModelResult(p, queryResult[p]))
    /\ wg' = wg - 1
    /\ pcWorker' = [pcWorker EXCEPT ![p] = "done"]
    /\ UNCHANGED <<registered, authErr, pcMain, idx, available, skipped, closed,
                   queryResult, queries, pcCloser, modelResults, arrival,
                   output, exitCode, panicked>>
    /\ UNCHANGED otherThanOrch

\* worker: results <- ModelResult{provider, r, calculateScore(r)}, then the
\* deferred wg.Done().  The send blocks while the buffer (capacity
\* len(available)) is full and panics on a closed channel.
WorkerSend(p) ==
    /\ pcWorker[p] = "send"
    /\ IF closed
         THEN /\ panicked' = TRUE
              /\ UNCHANGED results
         ELSE /\ Len(results) < Len(available)
              /\ results' = Append(results, MkModelResult(p, queryResult[p]))
              /\ UNCHANGED panicked
    /\ wg' = wg - 1
    /\ pcWorker' = [pcWorker EXCEPT ![p] = "done"]
    /\ UNCHANGED <<registered, authErr, pcMain, idx, available, skipped, closed,
                   queryResult, queries, pcCloser, modelResults, arrival,
                   output, exitCode>>
    /\ UNCHANGED otherThanOrch

\* a closer that closes the channel without waiting for the workers
CloserCloseNoWait ==
    /\ pcCloser = "wait"
    /\ closed' = TRUE
    /\ pcCloser' = "done"
    /\ UNCHANGED <<registered, authErr, pcMain, idx, available, skipped, wg,
                   results, pcWorker, queryResult, queries, modelResults,
                   arrival, output, exitCode, panicked>>
    /\ UNCHANGED otherThanOrch

\* closer goroutine: wg.Wait() returns when the counter is zero; close(results)
CloserClose ==
    /\ pcCloser = "wait"
    /\ wg = 0
    /\ closed' = TRUE
    /\ pcCloser' = "done"
    /\ UNCHANGED <<registered, authErr, pcMain, idx, available, skipped, wg,
                   results, pcWorker, queryResult, queries, modelResults,
                   arrival, output, exitCode, panicked>>
    /\ UNCHANGED otherThanOrch

\* `for mr := range results`: receive one value and append it
CollectRecv ==
    /\ pcMain = "collect"
    /\ Len(results) > 0
    /\ modelResults' = Append(modelResults, Head(results))
    /\ arrival' = Append(arrival, Head(results))
    /\ results' = Tail(results)
    /\ UNCHANGED <<registered, authErr, pcMain, idx, available, skipped, wg,
                   closed, pcWorker, queryResult, queries, pcCloser, output,
                   exitCode, panicked>>
    /\ UNCHANGED otherThanOrch

\* a collect loop that stops as soon as the channel is empty
CollectEndOnEmpty ==
    /\ pcMain = "collect"
    /\ Len(results) = 0
    /\ pcMain' = "sort"
    /\ UNCHANGED <<registered, authErr, idx, available, skipped, wg, results,
                   closed, pcWorker, queryResult, queries, pcCloser,
                   modelResults, arrival, output, exitCode, panicked>>
    /\ UNCHANGED otherThanOrch

\* `for mr := range results` ends: the channel is closed and drained
CollectEnd ==
    /\ pcMain = "collect"
    /\ closed /\ Len(results) = 0
    /\ pcMain' = "sort"
    /\ UNCHANGED <<registered, authErr, idx, available, skipped, wg, results,
                   closed, pcWorker, queryResult, queries, pcCloser,
                   modelResults, arrival, output, exitCode, panicked>>
    /\ UNCHANGED otherThanOrch

\* s is t rearranged by the index permutation f
Permuted(t, f) == [i \in 1..Len(t) |-> t[f[i]]]

\* the less function of the sort: modelResults[i].Score > modelResults[j].Score
ScoreLess(a, b) == a.Score > b.Score

\* no element is out of order with respect to less
SortedBy(s) ==
    \A i, j \in 1..Len(s) : i < j => ~ScoreLess(s[j], s[i])

\* a sort whose comparison is the wrong way round (lowest score first)
SortResultsAscending ==
    /\ pcMain = "sort"
    /\ \E f \in Perms(Len(modelResults)) :
          /\ \A i, j \in 1..Len(modelResults) :
                i < j => modelResults[f[i]].Score <= modelResults[f[j]].Score
          /\ modelResults' = Permuted(modelResults, f)
    /\ pcMain' = "print"
    /\ UNCHANGED <<registered, authErr, idx, available, skipped, wg, results,
                   closed, pcWorker, queryResult, queries, pcCloser, arrival,
                   output, exitCode, panicked>>
    /\ UNCHANGED otherThanOrch

\* sort.Slice(modelResults, less): sorts in place; sort.Slice does not
\* guarantee stability, so any arrangement that is ordered by less can result
SortResults ==
    /\ pcMain = "sort"
    /\ \E f \in Perms(Len(modelResults)) :
          /\ SortedBy(Permuted(modelResults, f))
          /\ modelResults' = Permuted(modelResults, f)
    /\ pcMain' = "print"
    /\ UNCHANGED <<registered, authErr, idx, available, skipped, wg, results,
                   closed, pcWorker, queryResult, queries, pcCloser, arrival,
                   output, exitCode, panicked>>
    /\ UNCHANGED otherThanOrch

\* the print loop and the two summaries: rank i+1 goes to modelResults[i]
PrintResults ==
    /\ pcMain = "print"
    /\ output' = modelResults
    /\ pcMain' = "done"
    /\ exitCode' = 0
    /\ UNCHANGED <<registered, authErr, idx, available, skipped, wg, results,
                   closed, pcWorker, queryResult, queries, pcCloser,
                   modelResults, arrival, panicked>>
    /\ UNCHANGED otherThanOrch

Init == InitOrch /\ ScoreIdle /\ DedupIdle /\ ValIdle /\ HealthIdle /\ JudgeIdle

Next ==
    \/ CheckAuthStep
    \/ CheckAvailable
    \/ Launch
    \/ SpawnCloser
    \/ \E p \in Providers : WorkerQuery(p)
    \/ \E p \in Providers : WorkerSend(p)
    \/ CloserClose
    \/ CollectRecv
    \/ CollectEnd
    \/ SortResults
    \/ PrintResults

Spec == Init /\ [][Next]_vars

\* the Go scheduler runs every goroutine that can take a step, and every
\* provider's Query returns: no step of the main goroutine, of a worker or
\* of the closer stays enabled forever without being taken
Fairness ==
    /\ WF_vars(CheckAuthStep) /\ WF_vars(CheckAvailable)
    /\ WF_vars(Launch) /\ WF_vars(SpawnCloser)
    /\ \A p \in Providers : WF_vars(WorkerQuery(p)) /\ WF_vars(WorkerSend(p))
    /\ WF_vars(CloserClose)
    /\ WF_vars(CollectRecv) /\ WF_vars(CollectEnd)
    /\ WF_vars(SortResults) /\ WF_vars(PrintResults)

SpecFair == Spec /\ Fairness

(***************************************************************************)
(* Properties of runAllModels                                              *)
(***************************************************************************)
Collected == pcMain \in {"sort", "print", "done"}

AvailableSet == Range(available)

\* the indices of s whose entry belongs to provider p
EntriesOf(s, p) == {i \in 1..Len(s) : s[i].Provider = p}

\* position of provider p's entry in s (0 when it has none)
PosOf(s, p) == IF EntriesOf(s, p) = {} THEN 0 ELSE CHOOSE i \in EntriesOf(s, p) : TRUE

\* C1: failure isolation.  Once the collect loop has ended, the collected
\* results hold exactly one ModelResult per available provider and none for
\* anyone else; each entry carries exactly the Result that provider's own
\* Query returned, so a failing provider's entry has its non-nil Error and the
\* others keep their own outputs, whatever the interleaving was.
C1_FailureIsolation ==
    Collected =>
        /\ Len(arrival) = Len(available)
        /\ \A i \in 1..Len(arrival) : arrival[i].Provider \in AvailableSet
        /\ \A p \in AvailableSet :
              /\ Cardinality(EntriesOf(arrival, p)) = 1
              /\ Cardinality(EntriesOf(modelResults, p)) = 1
              /\ arrival[PosOf(arrival, p)].Result = queryResult[p]
              /\ modelResults[PosOf(modelResults, p)].Result = queryResult[p]

\* a finished run of three providers in which exactly one Query failed
C1_Witness ==
    /\ pcMain = "done"
    /\ Len(output) = 3
    /\ Cardinality({p \in AvailableSet : queryResult[p].Error # Nil}) = 1
    /\ \E p \in AvailableSet : Len(queryResult[p].Citations) > 0

\* C2: barrier.  Sorting and output start only after every launched worker
\* has finished its Query and delivered its ModelResult: from the end of the
\* collect loop on, every available provider's goroutine is done, the channel
\* is closed and drained, and as many results are collected as there are
\* available providers.
C2_Barrier ==
    Collected =>
        /\ \A p \in AvailableSet : pcWorker[p] = "done"
        /\ wg = 0 /\ closed /\ results = <<>>
        /\ Len(modelResults) = Len(available)

\* the collect loop has just ended, with the results of several providers
C2_Witness ==
    /\ pcMain = "sort"
    /\ Len(modelResults) >= 2
    /\ pcCloser = "done"

\* C3: pre-flight exclusion.  A registered provider whose CheckAuth fails is
\* never launched or queried and has no ModelResult anywhere; after the
\* pre-flight loop it is in the skipped list and only such providers are;
\* every provider whose CheckAuth passes has been queried by the time the
\* results are collected.
C3_AuthExclusion ==
    /\ \A p \in authErr :
          /\ queries[p] = 0 /\ pcWorker[p] = "idle"
          /\ EntriesOf(results, p) = {} /\ EntriesOf(modelResults, p) = {}
          /\ EntriesOf(output, p) = {}
          /\ p \notin AvailableSet
    /\ pcMain \notin {"preflight"} =>
          /\ Range(skipped) = authErr
          /\ AvailableSet = registered \ authErr
    /\ Collected => \A p \in registered \ authErr : queries[p] >= 1

\* a finished run in which one provider was skipped and two were queried
C3_Witness ==
    /\ pcMain = "done"
    /\ Len(skipped) = 1
    /\ Len(output) = 2

\* C4: empty run.  With no available provider the run issues no Query and
\* ends in the empty-run exit (status 1, nothing printed as a result); it
\* never goes on to launch, collect or print.  A run that does print has at
\* least one result and status 0, so a run whose results all carry errors
\* ends differently from the empty run.
C4_EmptyRun ==
    /\ pcMain = "exited" =>
          /\ Len(available) = 0
          /\ exitCode = 1
          /\ \A p \in Providers : queries[p] = 0 /\ pcWorker[p] = "idle"
          /\ output = <<>> /\ ~panicked
    /\ pcMain \in {"launch", "collect", "sort", "print", "done"} =>
          Len(available) > 0
    /\ pcMain = "done" => exitCode = 0 /\ Len(output) > 0

\* the empty-run exit taken because every registered provider failed CheckAuth
C4_Witness ==
    /\ pcMain = "exited"
    /\ registered # {}
    /\ authErr = registered

\* the final sequence is ordered by score, highest first
SortedByScoreDesc(s) == \A i, j \in 1..Len(s) : i < j => s[i].Score >= s[j].Score

\* results of equal score keep the order in which they were received
TiesInArrivalOrder(s) ==
    \A i, j \in 1..Len(s) :
        (i < j /\ s[i].Score = s[j].Score) =>
            PosOf(arrival, s[i].Provider) < PosOf(arrival, s[j].Provider)

\* C6 as stated: the printed sequence is sorted by score descending and equal
\* scores appear in arrival order (stable sort).
C6_SortedStable ==
    pcMain = "done" => SortedByScoreDesc(output) /\ TiesInArrivalOrder(output)

\* C6, amended: the printed sequence is a rearrangement of the received
\* results that is sorted by score descending; the order among results of
\* equal score is not fixed by the arrival order.
C6_SortedDesc ==
    pcMain \in {"print", "done"} =>
        /\ SortedByScoreDesc(modelResults)
        /\ Len(modelResults) = Len(arrival)
        /\ Range(modelResults) = Range(arrival)
        /\ pcMain = "done" => output = modelResults

\* a finished run whose output had to be reordered and contains a tie
C6_Witness ==
    /\ pcMain = "done"
    /\ output # arrival
    /\ \E i, j \in 1..Len(output) : i < j /\ output[i].Score = output[j].Score

\* C7: end-to-end ranking.  In a finished run, if provider A's Result has a
\* nil Error and at least one citation and provider B's Result has a non-nil
\* Error, both are in the output, B's score is 0 and A is ranked strictly
\* above B, whichever of the two arrived first.
C7_EndToEnd ==
    pcMain = "done" =>
        \A a, b \in AvailableSet :
            ( /\ queryResult[a].Error = Nil
              /\ Len(queryResult[a].Citations) >= 1
              /\ queryResult[b].Error # Nil ) =>
                /\ PosOf(output, a) > 0 /\ PosOf(output, b) > 0
                /\ output[PosOf(output, b)].Score = 0
                /\ output[PosOf(output, b)].Result.Error # Nil
                /\ output[PosOf(output, a)].Result.Error = Nil
                /\ PosOf(output, a) < PosOf(output, b)

\* a finished run of exactly two providers in which the failing one arrived
\* first and the grounded one is still ranked first
C7_Witness ==
    /\ pcMain = "done"
    /\ Len(output) = 2
    /\ arrival[1].Result.Error # Nil
    /\ Len(arrival[2].Result.Citations) >= 1
    /\ output[1] = arrival[2]

(***************************************************************************)
(* calculateScore on arbitrary Results                                     *)
(***************************************************************************)
\* word counts around the steps of wordCount/10 and around the cap at 500
WordCounts == {0, 1, 9, 10, 11, 19, 20, 99, 100, 499, 500, 501, 509, 510, MaxWords}

\* texts with irregular white space: leading, trailing and repeated
OddTexts ==
    { <<" ">>,
      <<"\t", "\n">>,
      <<" ", "a", "b", " ", " ", "c", "\n">>,
      <<"a", "\t", "b", "\n", "\n", "c", " ", "d">> }

Texts == {Words(n) : n \in WordCounts} \cup OddTexts

\* the citation list of length k
CiteList(k) == [i \in 1..k |-> Cite(<<"https://a.example/", i>>, "t")]

ScoreInputs ==
    { MkResult(t, CiteList(k), e) :
        t \in Texts, k \in 0..MaxCitations, e \in {Nil, "timeout"} }

InitScore ==
    /\ scoreIn \in ScoreInputs
    /\ scoreOut = -1
    /\ OrchIdle /\ DedupIdle /\ ValIdle /\ HealthIdle /\ JudgeIdle

\* Score: calculateScore(r) in the worker and in runSingleModel
ScoreCall ==
    /\ scoreOut = -1
    /\ scoreOut' = calculateScore(scoreIn)
    /\ UNCHANGED <<scoreIn, orchVars, dedupVars, valVars, healthVars, judgeVars>>

NextScore == ScoreCall

SpecScore == InitScore /\ [][NextScore]_vars

\* the whitespace-delimited tokens of a text, counted by where they end
TokenCount(text) ==
    Cardinality({i \in 1..Len(text) :
        /\ text[i] \notin {" ", "\t", "\n"}
        /\ (i = Len(text) \/ text[i + 1] \in {" ", "\t", "\n"})})

\* C5: the heuristic score is 0 for a Result with a non-nil Error; otherwise
\* it is 10 per citation plus a tenth of the number of whitespace-delimited
\* tokens of Text (integer division), the latter capped at 50.
C5_HeuristicScore ==
    scoreOut # -1 =>
        LET tenth == TokenCount(scoreIn.Text) \div 10
            wordPart == scoreOut - 10 * Len(scoreIn.Citations)
        IN  IF scoreIn.Error # Nil
              THEN scoreOut = 0
              ELSE /\ wordPart = (IF tenth > 50 THEN 50 ELSE tenth)
                   /\ wordPart <= 50

\* a scored Result without error whose text is long enough to hit the cap
C5_Witness ==
    /\ scoreOut # -1
    /\ scoreIn.Error = Nil
    /\ TokenCount(scoreIn.Text) > 500
    /\ Len(scoreIn.Citations) = 2
    /\ scoreOut = 70

(***************************************************************************)
(* DeduplicateCitations (provider.go)                                      *)
(***************************************************************************)
\* the candidates a provider's parser feeds in: URLs repeat, with other titles
Candidates ==
    { Cite(u, t) : u \in {"", "https://a.example/1", "https://b.example/2"},
                   t \in {"first", "second"} }

\* seen[u], false for a key the map does not hold
Lookup(m, u) == u \in DOMAIN m /\ m[u]

\* seen[u] = true
MapSet(m, u) == [k \in DOMAIN m \cup {u} |-> IF k = u THEN TRUE ELSE m[k]]

InitDedup ==
    /\ citations = <<>>
    /\ seen = <<>>
    /\ lastCand = Cite("", "")
    /\ calls = 0
    /\ OrchIdle /\ ScoreIdle /\ ValIdle /\ HealthIdle /\ JudgeIdle

\* a helper that does not consult the seen map
DeduplicateCitationsNoSeenCheck(c) ==
    /\ calls < MaxCalls
    /\ IF c.URL # ""
         THEN /\ seen' = MapSet(seen, c.URL)
              /\ citations' = Append(citations, c)
         ELSE UNCHANGED <<citations, seen>>
    /\ lastCand' = c
    /\ calls' = calls + 1
    /\ UNCHANGED <<orchVars, scoreVars, valVars, healthVars, judgeVars>>

\* a helper that lets a later citation of a seen URL replace the stored one
DeduplicateCitationsLastWins(c) ==
    /\ calls < MaxCalls
    /\ IF c.URL # "" /\ ~Lookup(seen, c.URL)
         THEN /\ seen' = MapSet(seen, c.URL)
              /\ citations' = Append(citations, c)
         ELSE /\ citations' = [i \in 1..Len(citations) |->
                                 IF citations[i].URL = c.URL THEN c ELSE citations[i]]
              /\ UNCHANGED seen
    /\ lastCand' = c
    /\ calls' = calls + 1
    /\ UNCHANGED <<orchVars, scoreVars, valVars, healthVars, judgeVars>>

\* DeduplicateCitations(citations, seen, c)
DeduplicateCitations(c) ==
    /\ calls < MaxCalls
    /\ IF c.URL # "" /\ ~Lookup(seen, c.URL)
         THEN /\ seen' = MapSet(seen, c.URL)
              /\ citations' = Append(citations, c)
         ELSE UNCHANGED <<citations, seen>>
    /\ lastCand' = c
    /\ calls' = calls + 1
    /\ UNCHANGED <<orchVars, scoreVars, valVars, healthVars, judgeVars>>

NextDedup == \E c \in Candidates : DeduplicateCitations(c)

SpecDedup == InitDedup /\ [][NextDedup]_vars

\* the URLs the seen map marks
SeenSet == {u \in DOMAIN seen : seen[u]}

URLsOf(s) == {s[i].URL : i \in 1..Len(s)}

\* C8: dedup invariant.  After any sequence of calls from an empty collection
\* and an empty seen map, no two entries of the collection share a URL, no
\* entry has an empty URL, and the seen map marks exactly the URLs present.
C8_DedupInvariant ==
    /\ \A i, j \in 1..Len(citations) :
          citations[i].URL = citations[j].URL => i = j
    /\ \A i \in 1..Len(citations) : citations[i].URL # ""
    /\ SeenSet = URLsOf(citations)

\* both URLs collected although more calls were made than entries kept
C8_Witness ==
    /\ Len(citations) = 2
    /\ calls = 4

\* C9: frame of one call with candidate c.  If c.URL is empty or already
\* seen, the collection and the seen map are unchanged; otherwise c is
\* appended at the end, the earlier entries keep their place and content, and
\* exactly c.URL is added to the seen map.
C9_DedupFrame ==
    [][ calls' = calls + 1 =>
          LET c == lastCand' IN
          IF c.URL = "" \/ c.URL \in SeenSet
            THEN citations' = citations /\ seen' = seen
            ELSE /\ Len(citations') = Len(citations) + 1
                 /\ citations'[Len(citations')] = c
                 /\ SubSeq(citations', 1, Len(citations)) = citations
                 /\ SeenSet' = SeenSet \cup {c.URL}
       ]_vars

\* a later candidate with an already collected URL and another title was
\* turned away: the first occurrence is the one in the collection
C9_Witness ==
    /\ calls >= 2
    /\ lastCand.URL \in SeenSet
    /\ lastCand \notin Range(citations)
    /\ \E i \in 1..Len(citations) :
          citations[i].URL = lastCand.URL /\ citations[i].Title = "first"

(***************************************************************************)
(* validateCitations (judge.go)                                            *)
(***************************************************************************)
\* the zero value of CitationCheck, as make([]CitationCheck, n) fills it in
ZeroCheck == [URL |-> "", StatusCode |-> 0, Healthy |-> FALSE, Error |-> ""]

ProbeURLs == {"https://a.example/1", "https://b.example/2"}

\* citation lists of length 0..MaxProbes; a URL may occur more than once
ProbeInputs ==
    UNION { [1..k -> {Cite(u, "t") : u \in ProbeURLs}] : k \in 0..MaxProbes }

\* what client.Head can come back with: a transport error (status 0 here)
\* or a response with a status code
HeadOutcomes == {0, 199, 200, 399, 400}

InitValidate ==
    /\ vIn \in ProbeInputs
    /\ pcVal = "start" /\ vIdx = 1
    /\ checks = <<>> /\ vWg = 0
    /\ pcProbe = [i \in 1..Len(vIn) |-> "idle"]
    /\ ctxDone = FALSE
    /\ heads = [i \in 1..Len(vIn) |-> 0]
    /\ headResult = [i \in 1..Len(vIn) |-> -1]
    /\ check = [i \in 1..Len(vIn) |-> ZeroCheck]
    /\ written = [i \in 1..Len(vIn) |-> 0]
    /\ vOut = <<>>
    /\ OrchIdle /\ ScoreIdle /\ DedupIdle /\ HealthIdle /\ JudgeIdle

otherThanVal == <<orchVars, scoreVars, dedupVars, healthVars, judgeVars>>

\* checks := make([]CitationCheck, len(citations))
ValMake ==
    /\ pcVal = "start"
    /\ checks' = [i \in 1..Len(vIn) |-> ZeroCheck]
    /\ pcVal' = "launch"
    /\ UNCHANGED <<vIn, vIdx, vWg, pcProbe,
                   ctxDone, heads, headResult, check, written, vOut>>
    /\ UNCHANGED otherThanVal

\* one iteration of `for i, c := range citations`: wg.Add(1); go func(i, c)
ValLaunch ==
    /\ pcVal = "launch" /\ vIdx <= Len(vIn)
    /\ vWg' = vWg + 1
    /\ pcProbe' = [pcProbe EXCEPT ![vIdx] = "head"]
    /\ vIdx' = vIdx + 1
    /\ UNCHANGED <<vIn, pcVal, checks, ctxDone, heads, headResult, check, written, vOut>>
    /\ UNCHANGED otherThanVal

\* the loop is over: the function goes on to wg.Wait()
ValLaunched ==
    /\ pcVal = "launch" /\ vIdx > Len(vIn)
    /\ pcVal' = "wait"
    /\ UNCHANGED <<vIn, vIdx, checks, vWg, pcProbe,
                   ctxDone, heads, headResult, check, written, vOut>>
    /\ UNCHANGED otherThanVal

\* the CitationCheck a probe builds for citation c from what client.Head
\* came back with, with every status from 200 up counted as healthy
MakeCheckNoUpperBound(c, st) ==
    IF st = 0
      THEN MkCheck(c.URL, 0, FALSE, "transport error")
      ELSE MkCheck(c.URL, st, st >= 200, "")

\* the CitationCheck a probe builds for citation c from what client.Head
\* came back with: st = 0 stands for err != nil (a transport failure, whose
\* err.Error() is some non-empty text), any other st for a response
MakeCheck(c, st) ==
    IF st = 0
      THEN MkCheck(c.URL, 0, FALSE, "transport error")
      ELSE MkCheck(c.URL, st, st >= 200 /\ st < 400, "")

\* probe: check := CitationCheck{URL: citation.URL}; client.Head; fill it in
ProbeHead(i) ==
    /\ pcProbe[i] = "head"
    /\ \E st \in HeadOutcomes :
          /\ headResult' = [headResult EXCEPT ![i] = st]
          /\ check' = [check EXCEPT ![i] = MakeCheck(vIn[i], st)]
    /\ heads' = [heads EXCEPT ![i] = heads[i] + 1]
    /\ pcProbe' = [pcProbe EXCEPT ![i] = "write"]
    /\ UNCHANGED <<vIn, pcVal, vIdx, checks, vWg, ctxDone, written, vOut>>
    /\ UNCHANGED otherThanVal

\* a probe that stores its check in the next free slot, in completion order
ProbeWriteNextFree(i) ==
    /\ pcProbe[i] = "write"
    /\ LET done == Cardinality({j \in 1..Len(vIn) : written[j] > 0}) + 1
       IN  /\ checks' = [checks EXCEPT ![done] = check[i]]
           /\ written' = [written EXCEPT ![done] = @ + 1]
    /\ vWg' = vWg - 1
    /\ pcProbe' = [pcProbe EXCEPT ![i] = "done"]
    /\ UNCHANGED <<vIn, pcVal, vIdx, ctxDone, heads, headResult, check, vOut>>
    /\ UNCHANGED otherThanVal

\* probe: checks[idx] = check, then the deferred wg.Done()
ProbeWrite(i) ==
    /\ pcProbe[i] = "write"
    /\ checks' = [checks EXCEPT ![i] = check[i]]
    /\ written' = [written EXCEPT ![i] = @ + 1]
    /\ vWg' = vWg - 1
    /\ pcProbe' = [pcProbe EXCEPT ![i] = "done"]
    /\ UNCHANGED <<vIn, pcVal, vIdx, ctxDone, heads, headResult, check, vOut>>
    /\ UNCHANGED otherThanVal

\* wg.Wait() returns when the counter is zero; return checks
ValReturn ==
    /\ pcVal = "wait"
    /\ vWg = 0
    /\ vOut' = checks
    /\ pcVal' = "returned"
    /\ UNCHANGED <<vIn, vIdx, checks, vWg, pcProbe,
                   ctxDone, heads, headResult, check, written>>
    /\ UNCHANGED otherThanVal

\* the caller cancels the context it gave to Judge while validateCitations
\* is running.  validateCitations takes no context and client.Head builds
\* its request without one, so nothing in the probes reads this
CtxCancel ==
    /\ pcVal \notin {"off", "returned"}
    /\ ~ctxDone
    /\ ctxDone' = TRUE
    /\ UNCHANGED <<vIn, pcVal, vIdx, checks, vWg, pcProbe, heads, headResult, check,
                   written, vOut>>
    /\ UNCHANGED otherThanVal

NextValidate ==
    \/ CtxCancel
    \/ ValMake
    \/ ValLaunch
    \/ ValLaunched
    \/ \E i \in 1..Len(vIn) : ProbeHead(i)
    \/ \E i \in 1..Len(vIn) : ProbeWrite(i)
    \/ ValReturn

SpecValidate == InitValidate /\ [][NextValidate]_vars

\* C10: index alignment.  For a citation list of any length k, including 0,
\* validateCitations returns k checks with checks[i].URL = citations[i].URL
\* for every i, in every interleaving and completion order of the probes, and
\* at the return every probe has finished and written its own slot once.
C10_IndexAlignment ==
    pcVal = "returned" =>
        /\ Len(vOut) = Len(vIn)
        /\ \A i \in 1..Len(vIn) :
              /\ vOut[i].URL = vIn[i].URL
              /\ pcProbe[i] = "done"
              /\ written[i] = 1
              /\ vOut[i] = check[i]

\* a return for a list of three citations with different neighbours, whose
\* probes came back with different outcomes
C10_Witness ==
    /\ pcVal = "returned"
    /\ Len(vIn) = 3
    /\ vIn[1].URL # vIn[2].URL
    /\ vOut[1].Healthy /\ ~vOut[2].Healthy

(***************************************************************************)
(* linkHealthScore on arbitrary check lists                                *)
(***************************************************************************)
HealthyCheck == MkCheck("https://a.example/1", 200, TRUE, "")

UnhealthyCheck == MkCheck("https://b.example/2", 404, FALSE, "")

HealthInputs ==
    UNION { [1..k -> {HealthyCheck, UnhealthyCheck}] : k \in 0..MaxChecks }

InitHealth ==
    /\ healthIn \in HealthInputs
    /\ healthOut = -1
    /\ OrchIdle /\ ScoreIdle /\ DedupIdle /\ ValIdle /\ JudgeIdle

\* lhScore := linkHealthScore(checks), as buildJudgePrompt and Judge call it
HealthCall ==
    /\ healthOut = -1
    /\ healthOut' = linkHealthScore(healthIn)
    /\ UNCHANGED <<healthIn, orchVars, scoreVars, dedupVars, valVars, judgeVars>>

NextHealth == HealthCall

SpecHealth == InitHealth /\ [][NextHealth]_vars

\* the healthy checks of the list handed in
HealthyIn == {i \in 1..Len(healthIn) : healthIn[i].Healthy}

\* C11: linkHealthScore bounds.  The result is an integer from 1 to 10; it is
\* 5 for the empty list, 10 for a non-empty list of healthy checks only and
\* 1 for a non-empty list of unhealthy checks only.
C11_HealthBounds ==
    healthOut # -1 =>
        /\ healthOut \in 1..10
        /\ Len(healthIn) = 0 => healthOut = 5
        /\ (Len(healthIn) > 0 /\ Cardinality(HealthyIn) = Len(healthIn)) => healthOut = 10
        /\ (Len(healthIn) > 0 /\ HealthyIn = {}) => healthOut = 1

\* a scored list of nine checks, all of them healthy
C11_Witness ==
    /\ healthOut = 10
    /\ Len(healthIn) = 9
    /\ Cardinality(HealthyIn) = 9

\* the list with its i-th check turned healthy
Healed(cs, i) == [cs EXCEPT ![i] = HealthyCheck]

\* C12: linkHealthScore value.  For a non-empty list with h healthy checks
\* out of t the result is min(10, floor(9*h/t) + 1), and turning one
\* unhealthy check of the list healthy never lowers the result.
C12_HealthValue ==
    (healthOut # -1 /\ Len(healthIn) > 0) =>
        LET h == Cardinality(HealthyIn)
            t == Len(healthIn)
            exact == (9 * h) \div t + 1
        IN  /\ healthOut = (IF exact > 10 THEN 10 ELSE exact)
            /\ \A i \in 1..t :
                  ~healthIn[i].Healthy => linkHealthScore(Healed(healthIn, i)) >= healthOut

\* a scored list where 9*h/t is a whole number that the float64 product must
\* not fall short of: 7 healthy checks out of 9
C12_Witness ==
    /\ healthOut = 8
    /\ Len(healthIn) = 9
    /\ Cardinality(HealthyIn) = 7

\* C13: probe outcome mapping.  In the returned list, a citation whose probe
\* got a response has that response's status as StatusCode, is Healthy
\* exactly when 200 <= StatusCode < 400 and has no Error; a citation whose
\* probe failed at transport level is not Healthy, has StatusCode 0 and a
\* non-empty Error.  This holds for each citation by its own probe alone,
\* whatever the other probes came back with, and the call still returns.
C13_ProbeOutcome ==
    pcVal = "returned" =>
        \A i \in 1..Len(vIn) :
            /\ i \in DOMAIN vOut
            /\ headResult[i] # -1
            /\ headResult[i] # 0 =>
                  /\ vOut[i].StatusCode = headResult[i]
                  /\ vOut[i].Healthy <=> (200 <= vOut[i].StatusCode /\ vOut[i].StatusCode < 400)
                  /\ vOut[i].Error = ""
            /\ headResult[i] = 0 =>
                  /\ ~vOut[i].Healthy
                  /\ vOut[i].StatusCode = 0
                  /\ vOut[i].Error # ""

\* a return where the first probe failed at transport level and its
\* neighbours got a redirect-range status and a client-error status
C13_Witness ==
    /\ pcVal = "returned"
    /\ Len(vIn) = 3
    /\ headResult[1] = 0 /\ vOut[1].Error # ""
    /\ headResult[2] = 399 /\ vOut[2].Healthy
    /\ headResult[3] = 400 /\ ~vOut[3].Healthy

(***************************************************************************)
(* Judge (judge.go)                                                        *)
(***************************************************************************)
\* the results a caller hands to Judge: a failed query, an ungrounded
\* answer and a grounded answer with one citation
JudgeResults ==
    { MkResult(<<>>, <<>>, "timeout"),
      MkResult(Words(3), <<>>, Nil),
      MkResult(Words(3), <<Cite("https://a.example/1", "a")>>, Nil) }

\* result lists of up to MaxResults distinct providers, in any order, none
\* of them scored yet
JudgeInputs ==
    UNION { { [i \in 1..k |-> MkJudged(ps[i], rs[i], <<>>)] :
                ps \in {f \in [1..k -> Providers] :
                           \A i, j \in 1..k : f[i] = f[j] => i = j},
                rs \in [1..k -> JudgeResults] } : k \in 0..MaxResults }

\* what the probes of one validateCitations call inside Judge come back
\* with: a transport error (0) or a 200 response
JudgeHeadOutcomes == {0, 200}

\* the labels the scoring model writes into "model": a display name as the
\* prompt showed it, a short identifier, a display name in capitals, a
\* fragment shared by two display names, nothing, and an unknown name
Labels ==
    { DisplayName("claude"),
      Name("claude"),
      DisplayName("gemini"),
      <<"G", "R", "O", "K", " ", "4", " ", "(", "X", "A", "I", ")">>,
      <<"4">>,
      <<>>,
      <<"G", "P", "T", "-", "4", "o">> }

\* the evaluations the tool input can carry: each label with two in-range
\* score sets, and under one label the extremes of the range and what the
\* schema forbids.  The schema asks for integers in 1..10, but
\* json.Unmarshal takes what the model sent: an absent field stays 0 and
\* any integer is accepted
Evaluations ==
    { MkEval(l, 1, 1, 1, 1, "low") : l \in Labels } \cup
    { MkEval(l, 8, 7, 9, 3, "mixed") : l \in Labels } \cup
    { MkEval(DisplayName("claude"), 10, 10, 10, 10, "high"),
      MkEval(DisplayName("claude"), 0, 0, 0, 0, ""),
      MkEval(DisplayName("claude"), 11, 11, 11, 11, "over"),
      MkEval(DisplayName("claude"), -1, -1, -1, -1, "under") }

\* toolInput.Evaluations after a successful json.Unmarshal (possibly empty)
EvaluationLists == UNION { [1..k -> Evaluations] : k \in 0..MaxEvals }

InitJudge ==
    /\ jIn \in JudgeInputs
    /\ jResults = jIn
    /\ pcJudge = "validate" /\ jIdx = 1
    /\ allChecks = <<>> /\ jWg = 0 /\ mu = 0
    /\ pcValidator = [i \in 1..Len(jIn) |-> "idle"]
    /\ vChecks = [i \in 1..Len(jIn) |-> <<>>]
    /\ validations = 0 /\ llmCalls = 0
    /\ toolInput = <<>> /\ evalMap = <<>> /\ usedKey = <<>>
    /\ jErr = Nil /\ jOut = <<>>
    /\ fused \in BOOLEAN
    /\ OrchIdle /\ ScoreIdle /\ DedupIdle /\ ValIdle /\ HealthIdle

otherThanJudge == <<orchVars, scoreVars, dedupVars, valVars, healthVars>>

\* a phase 1 loop body that starts a goroutine for errored results too
JudgeLaunchAll ==
    /\ pcJudge = "validate"
    /\ jIdx <= Len(jResults)
    /\ jWg' = jWg + 1
    /\ pcValidator' = [pcValidator EXCEPT ![jIdx] = "validate"]
    /\ jIdx' = jIdx + 1
    /\ UNCHANGED <<jIn, jResults, pcJudge, allChecks, mu, vChecks, validations, llmCalls,
                   toolInput, evalMap, jErr, jOut, usedKey, fused>>
    /\ UNCHANGED otherThanJudge

\* phase 1 loop body: skip an errored result, start a goroutine otherwise
JudgeLaunch ==
    /\ pcJudge = "validate"
    /\ jIdx <= Len(jResults)
    /\ IF jResults[jIdx].Result.Error # Nil
         THEN UNCHANGED <<jWg, pcValidator>>
         ELSE /\ jWg' = jWg + 1
              /\ pcValidator' = [pcValidator EXCEPT ![jIdx] = "validate"]
    /\ jIdx' = jIdx + 1
    /\ UNCHANGED <<jIn, jResults, pcJudge, allChecks, mu, vChecks, validations, llmCalls,
                   toolInput, evalMap, jErr, jOut, usedKey, fused>>
    /\ UNCHANGED otherThanJudge

\* phase 1 loop exit: on to wg.Wait()
JudgeLaunched ==
    /\ pcJudge = "validate"
    /\ jIdx > Len(jResults)
    /\ pcJudge' = "wait"
    /\ UNCHANGED <<jIn, jResults, jIdx, allChecks, jWg, mu, pcValidator, vChecks,
                   validations, llmCalls, toolInput, evalMap, jErr, jOut, usedKey, fused>>
    /\ UNCHANGED otherThanJudge

\* goroutine i: checks := validateCitations(mr.Result.Citations), one
\* CitationCheck per citation, in order, each built from its own probe
ValidatorRun(i) ==
    /\ pcValidator[i] = "validate"
    /\ \E sts \in [1..Len(jIn[i].Result.Citations) -> JudgeHeadOutcomes] :
          vChecks' = [vChecks EXCEPT ![i] =
                         [k \in 1..Len(jIn[i].Result.Citations) |->
                             MakeCheck(jIn[i].Result.Citations[k], sts[k])]]
    /\ validations' = validations + 1
    /\ pcValidator' = [pcValidator EXCEPT ![i] = "lock"]
    /\ UNCHANGED <<jIn, jResults, pcJudge, jIdx, allChecks, jWg, mu, llmCalls,
                   toolInput, evalMap, jErr, jOut, usedKey, fused>>
    /\ UNCHANGED otherThanJudge

\* a Lock that does not wait for the mutex to be free
ValidatorLockNoWait(i) ==
    /\ pcValidator[i] = "lock"
    /\ mu' = i
    /\ pcValidator' = [pcValidator EXCEPT ![i] = "store"]
    /\ UNCHANGED <<jIn, jResults, pcJudge, jIdx, allChecks, jWg, vChecks, validations,
                   llmCalls, toolInput, evalMap, jErr, jOut, usedKey, fused>>
    /\ UNCHANGED otherThanJudge

\* goroutine i: mu.Lock(), which blocks while another goroutine holds mu
ValidatorLock(i) ==
    /\ pcValidator[i] = "lock"
    /\ mu = 0
    /\ mu' = i
    /\ pcValidator' = [pcValidator EXCEPT ![i] = "store"]
    /\ UNCHANGED <<jIn, jResults, pcJudge, jIdx, allChecks, jWg, vChecks, validations,
                   llmCalls, toolInput, evalMap, jErr, jOut, usedKey, fused>>
    /\ UNCHANGED otherThanJudge

\* goroutine i: allChecks[mr.Provider.Name()] = checks
ValidatorStore(i) ==
    /\ pcValidator[i] = "store"
    /\ allChecks' = [n \in DOMAIN allChecks \cup {jIn[i].Provider} |->
                        IF n = jIn[i].Provider THEN vChecks[i] ELSE allChecks[n]]
    /\ pcValidator' = [pcValidator EXCEPT ![i] = "unlock"]
    /\ UNCHANGED <<jIn, jResults, pcJudge, jIdx, jWg, mu, vChecks, validations, llmCalls,
                   toolInput, evalMap, jErr, jOut, usedKey, fused>>
    /\ UNCHANGED otherThanJudge

\* goroutine i: mu.Unlock()
ValidatorUnlock(i) ==
    /\ pcValidator[i] = "unlock"
    /\ mu' = 0
    /\ pcValidator' = [pcValidator EXCEPT ![i] = "exit"]
    /\ UNCHANGED <<jIn, jResults, pcJudge, jIdx, allChecks, jWg, vChecks, validations,
                   llmCalls, toolInput, evalMap, jErr, jOut, usedKey, fused>>
    /\ UNCHANGED otherThanJudge

\* goroutine i returns: the deferred wg.Done()
ValidatorDone(i) ==
    /\ pcValidator[i] = "exit"
    /\ jWg' = jWg - 1
    /\ pcValidator' = [pcValidator EXCEPT ![i] = "done"]
    /\ UNCHANGED <<jIn, jResults, pcJudge, jIdx, allChecks, mu, vChecks, validations,
                   llmCalls, toolInput, evalMap, jErr, jOut, usedKey, fused>>
    /\ UNCHANGED otherThanJudge

\* a Wait that returns while goroutines are still running
JudgeWaitNoWait ==
    /\ pcJudge = "wait"
    /\ pcJudge' = "count"
    /\ UNCHANGED <<jIn, jResults, jIdx, allChecks, jWg, mu, pcValidator, vChecks,
                   validations, llmCalls, toolInput, evalMap, jErr, jOut, usedKey, fused>>
    /\ UNCHANGED otherThanJudge

\* wg.Wait() returns
JudgeWait ==
    /\ pcJudge = "wait"
    /\ jWg = 0
    /\ pcJudge' = "count"
    /\ UNCHANGED <<jIn, jResults, jIdx, allChecks, jWg, mu, pcValidator, vChecks,
                   validations, llmCalls, toolInput, evalMap, jErr, jOut, usedKey, fused>>
    /\ UNCHANGED otherThanJudge

\* validCount: the results whose Error is nil
ValidCount(s) == Cardinality({i \in 1..Len(s) : s[i].Result.Error = Nil})

\* a count step that goes on to the scoring call whatever validCount is
JudgeCountNoEarlyReturn ==
    /\ pcJudge = "count"
    /\ pcJudge' = "llm"
    /\ UNCHANGED <<jIn, jResults, jIdx, allChecks, jWg, mu, pcValidator, vChecks,
                   validations, llmCalls, toolInput, evalMap, jErr, jOut, usedKey, fused>>
    /\ UNCHANGED otherThanJudge

\* count the valid results; if validCount == 0 { return results, nil }
JudgeCount ==
    /\ pcJudge = "count"
    /\ IF ValidCount(jResults) = 0
         THEN /\ pcJudge' = "returned"
              /\ jOut' = jResults
              /\ jErr' = Nil
         ELSE /\ pcJudge' = "llm"
              /\ UNCHANGED <<jOut, jErr>>
    /\ UNCHANGED <<jIn, jResults, jIdx, allChecks, jWg, mu, pcValidator, vChecks,
                   validations, llmCalls, toolInput, evalMap, usedKey, fused>>
    /\ UNCHANGED otherThanJudge

\* client.Messages.New returns an error: return results, "judge API error"
JudgeAPIError ==
    /\ pcJudge = "llm"
    /\ llmCalls' = llmCalls + 1
    /\ pcJudge' = "returned"
    /\ jOut' = jResults
    /\ jErr' = "judge API error"
    /\ UNCHANGED <<jIn, jResults, jIdx, allChecks, jWg, mu, pcValidator, vChecks,
                   validations, toolInput, evalMap, usedKey, fused>>
    /\ UNCHANGED otherThanJudge

\* the call succeeds but json.Unmarshal of the tool input fails:
\* return results, "judge parse error"
JudgeParseError ==
    /\ pcJudge = "llm"
    /\ llmCalls' = llmCalls + 1
    /\ pcJudge' = "returned"
    /\ jOut' = jResults
    /\ jErr' = "judge parse error"
    /\ UNCHANGED <<jIn, jResults, jIdx, allChecks, jWg, mu, pcValidator, vChecks,
                   validations, toolInput, evalMap, usedKey, fused>>
    /\ UNCHANGED otherThanJudge

\* a parse step that builds evalMap without looking at the list's length
JudgeEvaluationsNoEmptyCheck ==
    /\ pcJudge = "llm"
    /\ llmCalls' = llmCalls + 1
    /\ \E evs \in EvaluationLists :
          /\ toolInput' = evs
          /\ evalMap' = BuildEvalMap(evs)
    /\ pcJudge' = "attach"
    /\ jIdx' = 1
    /\ UNCHANGED <<jIn, jResults, allChecks, jWg, mu, pcValidator, vChecks,
                   validations, jErr, jOut, usedKey, fused>>
    /\ UNCHANGED otherThanJudge

\* the call succeeds and the tool input parses (or no score_models block is
\* there, which leaves toolInput empty): with no evaluations return results,
\* "judge returned no evaluations"; otherwise build evalMap
JudgeEvaluations ==
    /\ pcJudge = "llm"
    /\ llmCalls' = llmCalls + 1
    /\ \E evs \in EvaluationLists :
          /\ toolInput' = evs
          /\ IF Len(evs) = 0
               THEN /\ pcJudge' = "returned"
                    /\ jOut' = jResults
                    /\ jErr' = "judge returned no evaluations"
                    /\ UNCHANGED <<evalMap, jIdx>>
               ELSE /\ evalMap' = BuildEvalMap(evs)
                    /\ pcJudge' = "attach"
                    /\ jIdx' = 1
                    /\ UNCHANGED <<jOut, jErr>>
    /\ UNCHANGED <<jIn, jResults, allChecks, jWg, mu, pcValidator, vChecks,
                   validations, usedKey, fused>>
    /\ UNCHANGED otherThanJudge

\* allChecks[p.Name()]: the nil slice when the key is absent
ChecksOf(p) == IF p \in DOMAIN allChecks THEN allChecks[p] ELSE <<>>

\* a phase 3 loop body that leaves an unmatched provider without a score
JudgeAttachNoFallback ==
    /\ pcJudge = "attach"
    /\ jIdx <= Len(jResults)
    /\ IF jResults[jIdx].Result.Error # Nil \/ Matches(evalMap, jResults[jIdx].Provider) = {}
         THEN UNCHANGED jResults
         ELSE \E ev \in Matches(evalMap, jResults[jIdx].Provider) :
                 jResults' = [jResults EXCEPT ![jIdx].JudgeScore =
                     <<MatchedScore(ev,
                                    linkHealthScore(ChecksOf(jResults[jIdx].Provider)),
                                    fused)>>]
    /\ jIdx' = jIdx + 1
    /\ UNCHANGED <<jIn, pcJudge, allChecks, jWg, mu, pcValidator, vChecks, validations,
                   llmCalls, toolInput, evalMap, usedKey, jErr, jOut, fused>>
    /\ UNCHANGED otherThanJudge

\* phase 3 loop body for results[i]
JudgeAttach ==
    /\ pcJudge = "attach"
    /\ jIdx <= Len(jResults)
    /\ IF jResults[jIdx].Result.Error # Nil
         THEN UNCHANGED <<jResults, usedKey>>
         ELSE LET p == jResults[jIdx].Provider
                  lhScore == linkHealthScore(ChecksOf(p))
              IN  IF Matches(evalMap, p) = {}
                    THEN /\ jResults' = [jResults EXCEPT ![jIdx].JudgeScore =
                                            <<FallbackScore(lhScore)>>]
                         /\ UNCHANGED usedKey
                    ELSE \E ev \in Matches(evalMap, p) :
                            /\ jResults' = [jResults EXCEPT ![jIdx].JudgeScore =
                                               <<MatchedScore(ev, lhScore, fused)>>]
                            /\ usedKey' = [q \in DOMAIN usedKey \cup {p} |->
                                              IF q = p THEN ev.Model ELSE usedKey[q]]
    /\ jIdx' = jIdx + 1
    /\ UNCHANGED <<jIn, pcJudge, allChecks, jWg, mu, pcValidator, vChecks, validations,
                   llmCalls, toolInput, evalMap, jErr, jOut, fused>>
    /\ UNCHANGED otherThanJudge

\* sort.SliceStable(results, less) with less(i, j) = si > sj: the one
\* arrangement in descending key order that keeps equal keys in their
\* previous order
StableSortDesc(s) ==
    LET f == CHOOSE g \in Perms(Len(s)) :
                 \A i, j \in 1..Len(s) : i < j =>
                     \/ F64Less(SortKey(s[g[j]]), SortKey(s[g[i]]))
                     \/ (SortKey(s[g[i]]) = SortKey(s[g[j]]) /\ g[i] < g[j])
    IN  [i \in 1..Len(s) |-> s[f[i]]]

\* a final step that keeps only the scored results
JudgeSortDropUnscored ==
    /\ pcJudge = "attach"
    /\ jIdx > Len(jResults)
    /\ jResults' = StableSortDesc(SelectSeq(jResults, LAMBDA mr : mr.JudgeScore # <<>>))
    /\ jOut' = jResults'
    /\ jErr' = Nil
    /\ pcJudge' = "returned"
    /\ UNCHANGED <<jIn, jIdx, allChecks, jWg, mu, pcValidator, vChecks, validations,
                   llmCalls, toolInput, evalMap, usedKey, fused>>
    /\ UNCHANGED otherThanJudge

\* phase 3 loop exit: sort.SliceStable in place, then return results, nil
JudgeSort ==
    /\ pcJudge = "attach"
    /\ jIdx > Len(jResults)
    /\ jResults' = StableSortDesc(jResults)
    /\ jOut' = jResults'
    /\ jErr' = Nil
    /\ pcJudge' = "returned"
    /\ UNCHANGED <<jIn, jIdx, allChecks, jWg, mu, pcValidator, vChecks, validations,
                   llmCalls, toolInput, evalMap, usedKey, fused>>
    /\ UNCHANGED otherThanJudge

NextJudge ==
    \/ JudgeLaunch
    \/ JudgeLaunched
    \/ \E i \in 1..Len(jIn) : ValidatorRun(i)
    \/ \E i \in 1..Len(jIn) : ValidatorLock(i)
    \/ \E i \in 1..Len(jIn) : ValidatorStore(i)
    \/ \E i \in 1..Len(jIn) : ValidatorUnlock(i)
    \/ \E i \in 1..Len(jIn) : ValidatorDone(i)
    \/ JudgeWait
    \/ JudgeCount
    \/ JudgeAPIError
    \/ JudgeParseError
    \/ JudgeEvaluations
    \/ JudgeAttach
    \/ JudgeSort

SpecJudge == InitJudge /\ [][NextJudge]_vars

(***************************************************************************)
(* Any one of the concurrent components: a run of runAllModels, a call of  *)
(* validateCitations or a call of Judge                                    *)
(***************************************************************************)
InitAll == Init \/ InitValidate \/ InitJudge

NextAll == Next \/ NextValidate \/ NextJudge

SpecAll == InitAll /\ [][NextAll]_vars

(***************************************************************************)
(* Properties of Judge                                                     *)
(***************************************************************************)
\* Judge has returned through the success path (phase 3 ran)
JudgeSucceeded == pcJudge = "returned" /\ jErr = Nil /\ llmCalls > 0

\* the checks the validation goroutine of provider p got for p's citations
OwnChecks(p) == vChecks[CHOOSE i \in 1..Len(jIn) : jIn[i].Provider = p]

\* the labels of the returned evaluations that match provider p exactly
ExactLabels(p) ==
    {k \in 1..Len(toolInput) : toolInput[k].Model = DisplayName(p)}

\* the returned evaluations whose label matches p by the substring rule
FuzzyLabels(p) ==
    {k \in 1..Len(toolInput) : FuzzyMatch(toolInput[k].Model, p)}

\* score sc carries the fields of evaluation ev
CopiedFrom(sc, ev) ==
    /\ sc.Quality = ev.Quality /\ sc.Recency = ev.Recency
    /\ sc.Significance = ev.Significance /\ sc.Impact = ev.Impact
    /\ sc.Reasoning = ev.Reasoning

\* C14: when every input result has a non-nil Error, or the input is empty,
\* Judge validates no link, makes no scoring call, attaches no JudgeScore
\* and returns the input list as it was, with a nil error.
C14_NoUsableResult ==
    ValidCount(jIn) = 0 =>
        /\ validations = 0
        /\ llmCalls = 0
        /\ jResults = jIn
        /\ pcJudge \notin {"llm", "attach"}
        /\ pcJudge = "returned" => (jOut = jIn /\ jErr = Nil)

\* Judge has returned a list of two failed results
C14_Witness ==
    /\ pcJudge = "returned"
    /\ Len(jIn) = 2
    /\ ValidCount(jIn) = 0
    /\ jOut = jIn /\ jErr = Nil

\* C15: when the scoring call fails, its tool input cannot be parsed, or it
\* carries no evaluation (in each case no evaluation was taken in), Judge
\* returns a non-nil error; and whenever Judge returns a non-nil error it
\* returns the original list in input order with no JudgeScore attached.
C15_ScoringFailure ==
    /\ (pcJudge = "returned" /\ llmCalls > 0 /\ toolInput = <<>>) => jErr # Nil
    /\ jErr # Nil =>
          /\ pcJudge = "returned"
          /\ jOut = jIn
          /\ jResults = jIn
          /\ \A i \in 1..Len(jOut) : jOut[i].JudgeScore = <<>>

\* the scoring call returned no evaluations for two usable results
C15_Witness ==
    /\ pcJudge = "returned"
    /\ jErr = "judge returned no evaluations"
    /\ ValidCount(jIn) = 2
    /\ llmCalls = 1
    /\ jOut = jIn

\* C16: on every return path the returned list has the length of the input
\* and is a rearrangement of it as (Provider, Result) pairs: nothing is
\* dropped or added and no Result is changed.
C16_NothingDiscarded ==
    pcJudge = "returned" =>
        /\ Len(jOut) = Len(jIn)
        /\ \E f \in Perms(Len(jIn)) :
              \A i \in 1..Len(jIn) :
                  /\ jOut[i].Provider = jIn[f[i]].Provider
                  /\ jOut[i].Result = jIn[f[i]].Result

\* a successful return that moved a failed result behind a scored one
C16_Witness ==
    /\ JudgeSucceeded
    /\ Len(jIn) = 2
    /\ jIn[1].Result.Error # Nil /\ jIn[2].Result.Error = Nil
    /\ jOut[1].Provider = jIn[2].Provider /\ jOut[2] = jIn[1]

\* C17: after a successful scoring call, a provider with a usable result
\* whose display name equals no returned label and which no returned label
\* substring-matches is still in the returned list, with a JudgeScore whose
\* Overall and LinkHealth are linkHealthScore of its own checks, whose
\* Quality, Recency, Significance and Impact are 0 and whose Reasoning is
\* the fixed "did not return evaluation" text.
C17_Fallback ==
    JudgeSucceeded =>
        \A i \in 1..Len(jIn) :
            (/\ jIn[i].Result.Error = Nil
             /\ ExactLabels(jIn[i].Provider) = {}
             /\ FuzzyLabels(jIn[i].Provider) = {}) =>
                \E k \in 1..Len(jOut) :
                    /\ jOut[k].Provider = jIn[i].Provider
                    /\ Len(jOut[k].JudgeScore) = 1
                    /\ LET sc == jOut[k].JudgeScore[1]
                           lh == linkHealthScore(OwnChecks(jIn[i].Provider))
                       IN  /\ sc.Overall = F64(lh)
                           /\ sc.LinkHealth = lh
                           /\ sc.Quality = 0 /\ sc.Recency = 0
                           /\ sc.Significance = 0 /\ sc.Impact = 0
                           /\ sc.Reasoning = NoEvaluation

\* gemini was evaluated under its display name while grok, with one healthy
\* link, matched nothing and got the fallback score 10
C17_Witness ==
    /\ JudgeSucceeded
    /\ Len(jOut) = 2
    /\ \E k \in 1..2 :
          /\ jOut[k].Provider = "grok"
          /\ jOut[k].JudgeScore # <<>>
          /\ jOut[k].JudgeScore[1].Reasoning = NoEvaluation
          /\ jOut[k].JudgeScore[1].Overall = F64(10)
          /\ ExactLabels("grok") = {} /\ FuzzyLabels("grok") = {}
    /\ \E k \in 1..2 :
          /\ jOut[k].Provider = "gemini"
          /\ jOut[k].JudgeScore # <<>>
          /\ jOut[k].JudgeScore[1].Quality = 8

\* 25Q + 15L + 20R + 20S + 20I for evaluation ev and link health lh
Weighted(ev, lh) ==
    25 * ev.Quality + 15 * lh + 20 * ev.Recency + 20 * ev.Significance + 20 * ev.Impact

\* the returned evaluations provider p can have been matched to
MatchedTo(p) ==
    IF ExactLabels(p) # {} THEN ExactLabels(p) ELSE FuzzyLabels(p)

\* 100 times the float64 x is exactly the integer n
HundredTimesIs(x, n) == FxMulSmall(x, 100) = <<n, 0, 0, 0>>

\* float64 x is within 2^-48 of n/100: 100*x - n is at most 100 * 2^12
\* units of 2^-60 away from zero
NearHundredth(x, n) ==
    LET h == FxMulSmall(x, 100)
    IN  \/ h[1] = n /\ h[2] = 0 /\ h[3] = 0 /\ h[4] <= 100 * 2^12
        \/ /\ h[1] = n - 1 /\ h[2] = Limb - 1 /\ h[3] = Limb - 1
           /\ Limb - h[4] <= 100 * 2^12

C19_OverallRange ==
    \A i \in 1..Len(jResults) :
        jResults[i].JudgeScore # <<>> =>
            LET sc == jResults[i].JudgeScore[1]
            IN  /\ sc.LinkHealth \in 1..10
                /\ ~F64Less(sc.Overall, F64(1))
                /\ ~F64Less(F64(10), sc.Overall)

\* C20: after a successful scoring call, a provider with a usable result
\* whose display name is one of the returned labels carries the evaluation
\* stored under that label (the last one returned with it), whatever other
\* labels substring-match it; a provider with no such label but with labels
\* that substring-match (case-insensitively, label containing the short
\* identifier or display name containing the label) carries one of those
\* evaluations; and it carries the fallback score only when no label
\* matches by either rule.
C20_MatchingOrder ==
    JudgeSucceeded =>
        \A k \in 1..Len(jOut) :
            jOut[k].Result.Error = Nil =>
                LET p == jOut[k].Provider
                    sc == jOut[k].JudgeScore[1]
                IN  /\ Len(jOut[k].JudgeScore) = 1
                    /\ ExactLabels(p) # {} =>
                          CopiedFrom(sc, toolInput[CHOOSE m \in ExactLabels(p) :
                                                      \A n \in ExactLabels(p) : n <= m])
                    /\ (ExactLabels(p) = {} /\ FuzzyLabels(p) # {}) =>
                          \E m \in FuzzyLabels(p) : CopiedFrom(sc, toolInput[m])
                    /\ sc.Reasoning = NoEvaluation =>
                          (ExactLabels(p) = {} /\ FuzzyLabels(p) = {})

\* the evaluations came back labelled "claude" (8/7/9/3) and
\* "Claude 4.5 Sonnet" (1/1/1/1); both match the provider claude, which
\* carries the one under its display name
C20_Witness ==
    /\ JudgeSucceeded
    /\ Len(toolInput) = 2
    /\ toolInput[1] = MkEval(Name("claude"), 8, 7, 9, 3, "mixed")
    /\ toolInput[2] = MkEval(DisplayName("claude"), 1, 1, 1, 1, "low")
    /\ \E k \in 1..Len(jOut) :
          /\ jOut[k].Provider = "claude"
          /\ jOut[k].JudgeScore # <<>>
          /\ jOut[k].JudgeScore[1].Reasoning = "low"

\* position of provider p's result in the list Judge was given
InputPos(p) == CHOOSE i \in 1..Len(jIn) : jIn[i].Provider = p

\* C21 as stated: after a successful Judge call the list is in descending
\* order of Overall, a missing JudgeScore counting as 0; results with equal
\* keys are in their input order; and every errored result comes after
\* every result that carries a JudgeScore.
C21_FinalRanking ==
    JudgeSucceeded =>
        \A i, j \in 1..Len(jOut) : i < j =>
            /\ ~F64Less(SortKey(jOut[i]), SortKey(jOut[j]))
            /\ SortKey(jOut[i]) = SortKey(jOut[j]) =>
                   InputPos(jOut[i].Provider) < InputPos(jOut[j].Provider)
            /\ ~(jOut[i].Result.Error # Nil /\ jOut[j].JudgeScore # <<>>)

\* C22 as stated: a probe that is in flight when the context passed to Judge
\* is canceled records a context-canceled error in its CitationCheck.Error.
C22_Cancellation ==
    [][\A i \in 1..Len(vIn) :
          (ctxDone /\ pcProbe[i] = "head" /\ pcProbe'[i] = "write") =>
              check'[i].Error = "context canceled"]_vars

\* the phases of Judge in their order: Validate, Score, Attach-and-rank
PhaseRank(pc) ==
    CASE pc \in {"validate", "wait", "count"} -> 1
      [] pc = "llm" -> 2
      [] pc = "attach" -> 3
      [] pc = "returned" -> 4
      [] OTHER -> 0

\* phase 1 is over for every usable result: its goroutine has run
\* validateCitations once, stored the checks and finished
ValidationComplete ==
    /\ jWg = 0 /\ mu = 0
    /\ validations = ValidCount(jIn)
    /\ \A i \in 1..Len(jIn) :
          jIn[i].Result.Error = Nil =>
              /\ pcValidator[i] = "done"
              /\ jIn[i].Provider \in DOMAIN allChecks
              /\ allChecks[jIn[i].Provider] = vChecks[i]

\* C23: the scoring call is issued only after every validation goroutine
\* has completed and stored its checks; JudgeScores are attached only after
\* the scoring call has returned evaluations without error; and the phases
\* run in the order Validate, Score, Attach-and-rank, each at most once: the
\* phase never goes back, the scoring call is made at most once, no result
\* is validated twice and the attach loop only moves forward.
C23_PhaseOrdering ==
    [][/\ PhaseRank(pcJudge') >= PhaseRank(pcJudge)
       /\ (pcJudge' = "llm" \/ llmCalls' > 0) => ValidationComplete'
       /\ llmCalls' <= 1
       /\ llmCalls' > llmCalls => pcJudge = "llm"
       /\ validations' <= ValidCount(jIn)
       /\ (\E i \in 1..Len(jResults') : jResults'[i].JudgeScore # <<>>) =>
              (llmCalls' = 1 /\ toolInput' # <<>> /\ jErr' = Nil
               /\ pcJudge' \in {"attach", "returned"})
       /\ (pcJudge = "attach" /\ pcJudge' = "attach") => jIdx' = jIdx + 1
      ]_vars

\* both validation goroutines of a two-result run have finished and the
\* scoring call is about to be made
C23_Witness ==
    /\ pcJudge = "llm"
    /\ Len(jIn) = 2 /\ ValidCount(jIn) = 2
    /\ validations = 2 /\ llmCalls = 0
    /\ ValidationComplete

\* C24: once phase 1 is over, allChecks has an entry for exactly the
\* providers whose result has a nil Error, and each entry is what
\* validateCitations returned for that provider's own citations: one check
\* per citation, in order, for that citation's URL.  The citations of an
\* errored result are never probed.
C24_ValidationCoverage ==
    /\ \A i \in 1..Len(jIn) :
          jIn[i].Result.Error # Nil => (pcValidator[i] = "idle" /\ vChecks[i] = <<>>)
    /\ validations <= ValidCount(jIn)
    /\ PhaseRank(pcJudge) >= 2 \/ pcJudge = "count" =>
          /\ validations = ValidCount(jIn)
          /\ DOMAIN allChecks =
                {jIn[i].Provider : i \in {k \in 1..Len(jIn) : jIn[k].Result.Error = Nil}}
          /\ \A i \in 1..Len(jIn) :
                jIn[i].Result.Error = Nil =>
                    LET cs == allChecks[jIn[i].Provider]
                        cites == jIn[i].Result.Citations
                    IN  /\ Len(cs) = Len(cites)
                        /\ \A k \in 1..Len(cites) :
                              \E st \in JudgeHeadOutcomes : cs[k] = MakeCheck(cites[k], st)

\* phase 1 is over for an errored result and a result with one citation,
\* whose check is the only entry of allChecks
C24_Witness ==
    /\ pcJudge = "count"
    /\ Len(jIn) = 2
    /\ jIn[1].Result.Error # Nil
    /\ jIn[2].Result.Error = Nil /\ Len(jIn[2].Result.Citations) = 1
    /\ DOMAIN allChecks = {jIn[2].Provider}
    /\ Len(allChecks[jIn[2].Provider]) = 1
    /\ validations = 1

\* C28: after a successful Judge call a result carries a JudgeScore exactly
\* when its Error is nil.
C28_ScorePresence ==
    JudgeSucceeded =>
        \A k \in 1..Len(jOut) :
            jOut[k].Result.Error = Nil <=> jOut[k].JudgeScore # <<>>

\* a successful call on a usable result, which got the fallback score, and
\* an errored one, which got none
C28_Witness ==
    /\ JudgeSucceeded
    /\ Len(jOut) = 2
    /\ jOut[1].Result.Error = Nil /\ jOut[1].JudgeScore # <<>>
    /\ jOut[1].JudgeScore[1].Reasoning = NoEvaluation
    /\ jOut[2].Result.Error # Nil /\ jOut[2].JudgeScore = <<>>

\* the validation goroutines of Judge that are inside the critical section
InCritical == {i \in 1..Len(pcValidator) : pcValidator[i] \in {"store", "unlock"}}

\* C25: the writes of the validation goroutines to allChecks exclude one
\* another: a goroutine writes only while it holds the mutex, and at most
\* one goroutine is between Lock and Unlock; Judge reads the map only when
\* every goroutine has finished.  In validateCitations slot i of checks is
\* written by probe i alone, once, so no slot has two writers.
C25_ExclusiveAccess ==
    /\ Cardinality(InCritical) <= 1
    /\ \A i \in InCritical : mu = i
    /\ InCritical = {} => mu = 0
    /\ pcJudge \in {"count", "llm", "attach", "returned"} =>
          \A i \in 1..Len(pcValidator) : pcValidator[i] \in {"idle", "done"}
    /\ \A i \in 1..Len(written) :
          written[i] = IF pcProbe[i] = "done" THEN 1 ELSE 0

\* one validation goroutine holds the mutex and is about to write its
\* entry while the other one is waiting in Lock
C25_Witness ==
    /\ Len(jIn) = 2
    /\ pcValidator[1] = "lock"
    /\ pcValidator[2] = "store"
    /\ mu = 2

\* C26: no unit of work is issued twice.  Each available provider's Query
\* is called once by its worker and a provider that is not available is
\* never queried; each citation of a validateCitations call is probed once;
\* Judge calls the scoring capability at most once.  A failed Query is
\* passed on as the failed Result it returned and a failed probe as a check
\* with its Error.
C26_NoRetry ==
    /\ \A p \in Providers :
          /\ queries[p] <= 1
          /\ pcWorker[p] \in {"send", "done"} => queries[p] = 1
    /\ Collected =>
          \A p \in Providers :
              /\ queries[p] = IF p \in AvailableSet THEN 1 ELSE 0
              /\ p \in AvailableSet =>
                    \E k \in 1..Len(arrival) :
                        arrival[k].Provider = p /\ arrival[k].Result = queryResult[p]
    /\ \A i \in 1..Len(heads) :
          /\ heads[i] <= 1
          /\ pcProbe[i] \in {"write", "done"} => heads[i] = 1
    /\ pcVal = "returned" =>
          \A i \in 1..Len(heads) :
              heads[i] = 1 /\ (headResult[i] = 0 => vOut[i].Error # "")
    /\ llmCalls <= 1

\* a finished run of three providers, each queried once, in which a Query
\* failed and its failure is among the results
C26_Witness ==
    /\ pcMain = "done"
    /\ Len(available) = 3
    /\ \A p \in AvailableSet : queries[p] = 1
    /\ \E k \in 1..Len(output) : output[k].Result.Error # Nil

\* C27: in runAllModels, every Query returning, a worker that is about to
\* send finds the channel open and its buffer not full, so no send blocks or
\* panics; the channel is closed by the closer goroutine alone, once, and
\* only when every worker has sent and finished; and the collection loop
\* ends.
C27_FanInTermination ==
    /\ [](/\ \A p \in Providers :
                pcWorker[p] = "send" => (~closed /\ Len(results) < Len(available))
          /\ ~panicked
          /\ closed <=> pcCloser = "done"
          /\ closed => (wg = 0 /\ \A p \in AvailableSet : pcWorker[p] = "done"))
    /\ [][closed => closed']_vars
    /\ (pcMain = "collect") ~> (pcMain = "sort")

\* the collection loop has ended with all three results received and the
\* channel closed
C27_Witness ==
    /\ pcMain = "sort"
    /\ closed
    /\ Len(available) = 3
    /\ Len(modelResults) = 3
    /\ results = <<>>

\* the JudgeScores the attach step can give results[jIdx] from the state it
\* is in: the ranging loop over evalMap stops at the first matching key it
\* visits, and Go visits the keys of a map in no fixed order
AttachOutcomes ==
    LET p == jResults[jIdx].Provider
    IN  {MatchedScore(ev, linkHealthScore(ChecksOf(p)), fused) :
            ev \in Matches(evalMap, p)}

\* C29 as stated: with the input results, the link checks and the returned
\* evaluation list fixed, phase 3 attaches one and the same JudgeScore to a
\* provider in every run: the attach step has a single outcome, also when
\* several labels substring-match the provider.
C29_Determinism ==
    (pcJudge = "attach" /\ jIdx <= Len(jResults)
        /\ jResults[jIdx].Result.Error = Nil) =>
        Cardinality(AttachOutcomes) <= 1

\* C30 as stated: after phase 3 no returned evaluation (no evalMap key) has
\* been attached to more than one provider result.
C30_NoSharedEvaluation ==
    \A p, q \in DOMAIN usedKey :
        usedKey[p] = usedKey[q] => p = q

====
